---- MODULE Spec2Model ----
(***************************************************************************)
(* Model of the Dominion Energy schedule extractor                         *)
(* (dominion_energy_extractor_render.py) and of the schedule API receiver  *)
(* with file storage (api_server_with_get.py).                             *)
(*                                                                         *)
(* Dates are day numbers counted from the epoch; a timestamp is a number   *)
(* of milliseconds since the epoch, read in a UTC local time zone.  The    *)
(* '%Y-%m-%d' text of a date orders like its day number, so the 'date'     *)
(* field of an entry holds the day number.  Strings that the code takes    *)
(* apart (the /Date(...)/ markers, numeric text) are sequences of          *)
(* one-character strings.                                                  *)
(***************************************************************************)
EXTENDS Integers, Sequences, FiniteSets, TLC

\* ------------------------------------------------------------------ bounds
MaxDate == 3          \* upstream day records carry the dates NowDate-1..MaxDate
MaxDaysAhead == 2     \* DAYS_AHEAD is drawn from 0..MaxDaysAhead
MaxCurDays == 2       \* day records in the current month's payload
MaxNextDays == 1      \* day records in the next month's payload
NowDate == 1          \* the date on which the run starts (now.date)

\* --------------------------------------------------------------- constants
MsPerSecond == 1000       \* timestamp_ms / 1000
SecondsPerDay == 86400    \* the length of a day of datetime.fromtimestamp

\* ------------------------------------------------------- loosely typed values
\* A field of an upstream record: absent key, None, text, or a number.
Missing == [t |-> "missing"]
None == [t |-> "null"]
Str(chars) == [t |-> "str", s |-> chars]
Num(n) == [t |-> "num", n |-> n]

IsStr(v) == v.t = "str"
IsNum(v) == v.t = "num"

\* dict.get(key): an absent key reads as None
Get(v) == IF v.t = "missing" THEN None ELSE v

\* Python truthiness of a value
Truthy(v) ==
    CASE v.t = "str" -> Len(v.s) > 0
      [] v.t = "num" -> v.n # 0
      [] OTHER -> FALSE

\* result of a call: a value, or the exception it raised
Ok(v) == [exc |-> "none", val |-> v]
Raise(e) == [exc |-> e]

\* ------------------------------------------------------------ text helpers
DigitChars == <<"0", "1", "2", "3", "4", "5", "6", "7", "8", "9">>

DigitValue(c) == (CHOOSE i \in 1..10 : DigitChars[i] = c) - 1

IsDigit(c) == \E i \in 1..10 : DigitChars[i] = c

RECURSIVE Digits(_)
Digits(n) ==
    IF n < 10 THEN <<DigitChars[n + 1]>>
    ELSE Digits(n \div 10) \o <<DigitChars[(n % 10) + 1]>>

\* text before the first occurrence of sep (all of it when sep is absent)
RECURSIVE Before(_, _)
Before(chars, sep) ==
    IF chars = <<>> \/ Head(chars) = sep THEN <<>>
    ELSE <<Head(chars)>> \o Before(Tail(chars), sep)

\* str.split(sep) for a one-character separator
RECURSIVE Split(_, _)
Split(chars, sep) ==
    LET first == Before(chars, sep)
    IN  IF Len(first) = Len(chars) THEN <<first>>
        ELSE <<first>> \o Split([i \in 1..(Len(chars) - Len(first) - 1) |->
                                        chars[Len(first) + 1 + i]], sep)

RECURSIVE DigitsValue(_, _)
DigitsValue(chars, acc) ==
    IF chars = <<>> THEN acc
    ELSE DigitsValue(Tail(chars), 10 * acc + DigitValue(Head(chars)))

\* int(text): optional sign, then one or more digits; ValueError otherwise
IntOfText(chars) ==
    LET signed == chars # <<>> /\ Head(chars) \in {"-", "+"}
        body == IF signed THEN Tail(chars) ELSE chars
    IN  IF body = <<>> \/ \E i \in 1..Len(body) : ~IsDigit(body[i])
        THEN Raise("ValueError")
        ELSE Ok(IF signed /\ Head(chars) = "-"
                THEN 0 - DigitsValue(body, 0) ELSE DigitsValue(body, 0))

\* int(x) for a loosely typed value
IntOf(v) ==
    CASE v.t = "num" -> Ok(v.n)
      [] v.t = "str" -> IntOfText(v.s)
      [] OTHER -> Raise("TypeError")

\* ---------------------------------------------------------------- DateCodec
\* datetime.date() of a timestamp
DateOfMs(ms) == (ms \div MsPerSecond) \div SecondsPerDay

NullText == <<"n", "u", "l", "l">>

\* parse_date: None for an empty or "null" marker and for a marker that does
\* not split or convert; text methods on a non-text value raise
parse_date(date_str) ==
    IF ~Truthy(date_str) \/ (IsStr(date_str) /\ date_str.s = NullText) THEN Ok(None)
    ELSE IF ~IsStr(date_str) THEN Raise("AttributeError")
    ELSE LET parts == Split(date_str.s, "(")
         IN  IF Len(parts) < 2 THEN Ok(None)
             ELSE LET n == IntOfText(Split(parts[2], ")")[1])
                  IN  IF n.exc # "none" THEN Ok(None) ELSE Ok(Num(n.val))

\* ------------------------------------------------------- ScheduleNormalizer
Designations == {<<"A">>, <<"B">>, <<"C">>}

\* a test that takes any text for a designation
AnyTextDesignation(designation) == Truthy(designation) /\ IsStr(designation)

\* the test of line 77: a truthy designation that is one of 'A', 'B', 'C'
ValidDesignation(designation) ==
    Truthy(designation) /\ IsStr(designation) /\ designation.s \in Designations

\* one day record of extract_schedule_data's inner loop: the entries it
\* appends (none or one), or the exception that leaves the loop
NormalizeDay(day_data) ==
    LET d == Get(day_data.Date)
    IN  IF ~(Truthy(d) /\ ~(IsStr(d) /\ d.s = NullText)) THEN Ok(<<>>)
        ELSE LET date_obj == parse_date(d)
             IN  IF date_obj.exc # "none" THEN Raise(date_obj.exc)
                 ELSE IF ~IsNum(date_obj.val) THEN Ok(<<>>)
                 ELSE LET designation == Get(day_data.Designation)
                      IN  IF ~ValidDesignation(designation) THEN Ok(<<>>)
                          ELSE IF day_data.Day.t = "missing" THEN Raise("KeyError")
                          ELSE LET day == IntOf(day_data.Day)
                               IN  IF day.exc # "none" THEN Raise(day.exc)
                                   ELSE Ok(<<[date |-> DateOfMs(date_obj.val.n),
                                              day |-> day.val,
                                              designation |-> designation.s,
                                              timestamp |-> date_obj.val.n]>>)

RECURSIVE NormalizeDays(_)
NormalizeDays(days) ==
    IF days = <<>> THEN Ok(<<>>)
    ELSE LET first == NormalizeDay(Head(days))
         IN  IF first.exc # "none" THEN first
             ELSE LET rest == NormalizeDays(Tail(days))
                  IN  IF rest.exc # "none" THEN rest
                      ELSE Ok(first.val \o rest.val)

\* the day records of the weeks that have a 'Days' key, in order
RECURSIVE WeekDays(_)
WeekDays(weeks) ==
    IF weeks = <<>> THEN <<>>
    ELSE (IF Head(weeks).hasDays THEN Head(weeks).Days ELSE <<>>)
            \o WeekDays(Tail(weeks))

\* insert e behind the entries whose date is not later (a stable sort)
RECURSIVE InsertByDate(_, _)
InsertByDate(e, sorted) ==
    IF sorted = <<>> THEN <<e>>
    ELSE IF Head(sorted).date <= e.date
         THEN <<Head(sorted)>> \o InsertByDate(e, Tail(sorted))
         ELSE <<e>> \o sorted

\* sorted(schedule, key=lambda x: x['date'])
RECURSIVE SortedByDate(_, _)
SortedByDate(entries, acc) ==
    IF entries = <<>> THEN acc
    ELSE SortedByDate(Tail(entries), InsertByDate(Head(entries), acc))

extract_schedule_data(month_data) ==
    IF ~month_data.hasWeeks THEN Ok(<<>>)
    ELSE LET r == NormalizeDays(WeekDays(month_data.Weeks))
         IN  IF r.exc # "none" THEN r ELSE Ok(SortedByDate(r.val, <<>>))

\* -------------------------------------------------------- ScheduleAggregator
\* datetime.fromisoformat(entry['timestamp']).date()
EntryDate(entry) == DateOfMs(entry.timestamp)

\* lines 145-146: the last date the current month's schedule covers
LastScheduleDate(sched, nowDate) ==
    IF sched # <<>> THEN EntryDate(sched[Len(sched)]) ELSE nowDate

EndDate(nowDate, daysAhead) == nowDate + daysAhead

\* line 148
NeedsNextMonth(sched, nowDate, daysAhead) ==
    EndDate(nowDate, daysAhead) > LastScheduleDate(sched, nowDate)

\* a window that leaves its last day out
InWindowOpenEnd(entry, nowDate, endDate) ==
    nowDate <= EntryDate(entry) /\ EntryDate(entry) < endDate

\* the test of line 162
InWindow(entry, nowDate, endDate) ==
    nowDate <= EntryDate(entry) /\ EntryDate(entry) <= endDate

\* the loop of lines 159-163
RECURSIVE UpcomingSchedule(_, _, _)
UpcomingSchedule(sched, nowDate, endDate) ==
    IF sched = <<>> THEN <<>>
    ELSE (IF InWindow(Head(sched), nowDate, endDate) THEN <<Head(sched)>> ELSE <<>>)
            \o UpcomingSchedule(Tail(sched), nowDate, endDate)

\* get_next_designation: the first entry on or after the date the clock shows
\* when it is called
RECURSIVE get_next_designation(_, _)
get_next_designation(sched, today) ==
    IF sched = <<>> THEN None
    ELSE IF EntryDate(Head(sched)) >= today THEN Head(sched)
    ELSE get_next_designation(Tail(sched), today)

\* sum(1 for e in upcoming_schedule if e['designation'] == letter)
RECURSIVE CountDesignation(_, _)
CountDesignation(entries, letter) ==
    IF entries = <<>> THEN 0
    ELSE (IF Head(entries).designation = letter THEN 1 ELSE 0)
            + CountDesignation(Tail(entries), letter)

\* lines 158-182: the payload of a run over the combined schedule
BuildPayload(sched, nowDate, daysAhead, today) ==
    LET upcoming == UpcomingSchedule(sched, nowDate, EndDate(nowDate, daysAhead))
    IN  [fetched_at |-> nowDate,
         next_designation |-> get_next_designation(sched, today),
         upcoming_schedule |-> upcoming,
         summary |-> [total_upcoming |-> Len(upcoming),
                      A_count |-> CountDesignation(upcoming, <<"A">>),
                      B_count |-> CountDesignation(upcoming, <<"B">>),
                      C_count |-> CountDesignation(upcoming, <<"C">>)]]

\* ------------------------------------------------------------ upstream data
MsPerDay == MsPerSecond * SecondsPerDay

\* the time of day of the markers the upstream sends: noon
NoonMs == MsPerDay \div 2

\* the upstream marker of noon of a date, "/Date(<milliseconds>)/"
DateMarker(d) ==
    Str(<<"/", "D", "a", "t", "e", "(">> \o Digits(d * MsPerDay + NoonMs) \o <<")", "/">>)

\* day records with every field present and of the expected type
WellFormedDays ==
    {[Date |-> DateMarker(d), Day |-> Num(d + 1), Designation |-> Str(des)] :
        d \in (NowDate - 1)..MaxDate, des \in Designations}

BaseDay == [Date |-> DateMarker(NowDate), Day |-> Num(NowDate + 1), Designation |-> Str(<<"A">>)]

\* day records with one field missing, null or ill-typed
MalformedDays ==
    {[BaseDay EXCEPT !.Date = v] :
        v \in {Missing, None, Str(NullText), Str(<<>>), Str(<<"D", "a", "t", "e">>),
               Str(<<"/", "D", "a", "t", "e", "(", "x", ")", "/">>), Num(5)}}
    \cup {[BaseDay EXCEPT !.Day = v] :
        v \in {Missing, None, Str(<<"x">>), Str(<<"2">>)}}
    \cup {[BaseDay EXCEPT !.Designation = v] :
        v \in {Missing, None, Str(<<"D">>), Str(<<"a">>), Num(1)}}

DayRecords == WellFormedDays \cup MalformedDays

SeqsUpTo(S, n) == UNION {[1..k -> S] : k \in 0..n}

NoDaysWeek == [hasDays |-> FALSE]
Week(days) == [hasDays |-> TRUE, Days |-> days]

\* a month's payload: a week without 'Days', then the day records in two weeks
MonthPayload(days) ==
    [hasWeeks |-> TRUE,
     Weeks |-> <<NoDaysWeek,
                 Week([i \in 1..(IF days = <<>> THEN 0 ELSE 1) |-> days[i]]),
                 Week(IF days = <<>> THEN <<>> ELSE Tail(days))>>]

MonthPayloads(n) ==
    {[hasWeeks |-> FALSE]} \cup {MonthPayload(days) : days \in SeqsUpTo(DayRecords, n)}

\* what extract_schedule_data makes of the payloads the upstream can answer with
CurrentMonthResults == {extract_schedule_data(month_data) : month_data \in MonthPayloads(MaxCurDays)}
NextMonthResults == {extract_schedule_data(month_data) : month_data \in MonthPayloads(MaxNextDays)}

\* ------------------------------------------------------------ extractor run
VARIABLES
    pc,                 \* where DominionEnergyExtractor.run stands
    days_ahead,         \* self.days_ahead (DAYS_AHEAD)
    api_endpoint,       \* whether API_ENDPOINT is configured
    schedule,           \* run's local 'schedule'
    last_schedule_date, \* run's local 'last_schedule_date'
    fetches,            \* the calls of get_dominion_data so far, with their outcome
    error,              \* the exception run re-raised, "none" if none
    payload,            \* run's local 'payload', None until it is built
    today_read,         \* the date get_next_designation read from the clock
    publish_calls,      \* the calls of publish_to_api in this run
    posts               \* the POST requests publish_to_api sent, with their outcome

evars == <<pc, days_ahead, api_endpoint, schedule, last_schedule_date, fetches,
           error, payload, today_read, publish_calls, posts>>

\* the API receiver
VARIABLES
    file,               \* the content of DATA_FILE: the JSON text written so far
    clock,              \* the receiver's clock: the saves stamped so far
    wpc,                \* where the POST handler in flight stands
    post_body,          \* the body of the POST that last reached save_schedule
    data,               \* that handler's 'data' once save_schedule stamped it
    stored_before,      \* what load_schedule returned when that POST arrived
    response            \* the last response sent, with the request it answers

svars == <<file, clock, wpc, post_body, data, stored_before, response>>

vars == <<evars, svars>>

\* the clock get_next_designation reads (line 91) after run has read it
\* (line 133): the same date, or the next one when midnight falls in between
ClockDates == {NowDate, NowDate + 1}

\* a failed fetch that is logged and not re-raised: run goes on without data
OnFetchErrorSwallowed == [pc |-> "publish", error |-> "none"]

\* lines 37-39 and 198-201: a failed fetch is re-raised through run
OnFetchError == [pc |-> "raised", error |-> "RequestException"]


\* get_dominion_data raises for the current month (line 141)
FetchCurrentFails ==
    /\ pc = "fetch_current"
    /\ fetches' = Append(fetches, [month |-> "current", ok |-> FALSE])
    /\ pc' = OnFetchError.pc
    /\ error' = OnFetchError.error
    /\ UNCHANGED <<days_ahead, api_endpoint, schedule, last_schedule_date, payload,
                   today_read, publish_calls, posts, svars>>

\* lines 141-148, and lines 158-182 when the next month is not needed
FetchCurrentReturns ==
    /\ pc = "fetch_current"
    /\ \E r \in CurrentMonthResults, today \in ClockDates :
            /\ fetches' = Append(fetches, [month |-> "current", ok |-> TRUE])
            /\ IF r.exc # "none"
               THEN /\ pc' = "raised"
                    /\ error' = r.exc
                    /\ UNCHANGED <<schedule, last_schedule_date, payload, today_read>>
               ELSE /\ schedule' = r.val
                    /\ last_schedule_date' = LastScheduleDate(r.val, NowDate)
                    /\ error' = error
                    /\ IF NeedsNextMonth(r.val, NowDate, days_ahead)
                       THEN pc' = "fetch_next" /\ UNCHANGED <<payload, today_read>>
                       ELSE /\ pc' = "publish"
                            /\ today_read' = today
                            /\ payload' = BuildPayload(r.val, NowDate, days_ahead, today)
    /\ UNCHANGED <<days_ahead, api_endpoint, publish_calls, posts, svars>>

\* get_dominion_data raises for the next month (line 154)
FetchNextFails ==
    /\ pc = "fetch_next"
    /\ fetches' = Append(fetches, [month |-> "next", ok |-> FALSE])
    /\ pc' = OnFetchError.pc
    /\ error' = OnFetchError.error
    /\ UNCHANGED <<days_ahead, api_endpoint, schedule, last_schedule_date, payload,
                   today_read, publish_calls, posts, svars>>

\* lines 154-182
FetchNextReturns ==
    /\ pc = "fetch_next"
    /\ \E r \in NextMonthResults, today \in ClockDates :
            /\ fetches' = Append(fetches, [month |-> "next", ok |-> TRUE])
            /\ IF r.exc # "none"
               THEN /\ pc' = "raised"
                    /\ error' = r.exc
                    /\ UNCHANGED <<schedule, payload, today_read>>
               ELSE /\ schedule' = schedule \o r.val
                    /\ error' = error
                    /\ pc' = "publish"
                    /\ today_read' = today
                    /\ payload' = BuildPayload(schedule \o r.val, NowDate, days_ahead, today)
    /\ UNCHANGED <<days_ahead, api_endpoint, last_schedule_date, publish_calls, posts, svars>>

\* publish_to_api without an endpoint: nothing is sent (lines 104-106, 193-196)
PublishSkipped ==
    /\ pc = "publish"
    /\ ~api_endpoint
    /\ publish_calls' = publish_calls + 1
    /\ pc' = "returned"
    /\ UNCHANGED <<days_ahead, api_endpoint, schedule, last_schedule_date, fetches,
                   error, payload, today_read, posts, svars>>

\* publish_to_api posts the payload; a failed post is reported, not raised
\* (lines 108-127, 193-196)
PublishPosts ==
    /\ pc = "publish"
    /\ api_endpoint
    /\ \E ok \in BOOLEAN : posts' = Append(posts, [data |-> payload, ok |-> ok])
    /\ publish_calls' = publish_calls + 1
    /\ pc' = "returned"
    /\ UNCHANGED <<days_ahead, api_endpoint, schedule, last_schedule_date, fetches,
                   error, payload, today_read, svars>>

ExtractorNext ==
    \/ FetchCurrentFails
    \/ FetchCurrentReturns
    \/ FetchNextFails
    \/ FetchNextReturns
    \/ PublishSkipped
    \/ PublishPosts

\* ------------------------------------------------------------- API receiver
MaxSaves == 1         \* POST requests that reach save_schedule
MaxLimit == 1         \* the 'limit' argument of /api/upcoming is drawn from 0..MaxLimit
BlockTokens == 4      \* tokens of JSON text that reach the file in one write

API_KEY == "RicService"

IsNone(v) == "t" \in DOMAIN v /\ v.t = "null"

\* the JSON text of the data file, one token per brace and per member
OpenBrace == [brace |-> "{"]
CloseBrace == [brace |-> "}"]
IsBrace(tok) == "brace" \in DOMAIN tok
IsOpenBrace(tok) == IsBrace(tok) /\ tok.brace = "{"
IsCloseBrace(tok) == IsBrace(tok) /\ tok.brace = "}"

KeyOrder == <<"status", "message", "fetched_at", "next_designation",
              "upcoming_schedule", "summary", "source", "received_at">>

RECURSIVE Members(_, _)
Members(rec, keys) ==
    IF keys = <<>> THEN <<>>
    ELSE (IF Head(keys) \in DOMAIN rec THEN <<Head(keys) :> rec[Head(keys)]>> ELSE <<>>)
            \o Members(rec, Tail(keys))

\* json.dump of a dict: the text it writes, in the order it writes it
json_dump(rec) == <<OpenBrace>> \o Members(rec, KeyOrder) \o <<CloseBrace>>

\* json.load: the dict of a complete text; anything else does not decode
json_load(text) ==
    IF \/ Len(text) < 2
       \/ ~IsOpenBrace(text[1])
       \/ ~IsCloseBrace(text[Len(text)])
       \/ \E i \in 2..(Len(text) - 1) : IsBrace(text[i])
    THEN Raise("JSONDecodeError")
    ELSE LET inner == 2..(Len(text) - 1)
         IN  Ok([k \in UNION {DOMAIN text[i] : i \in inner} |->
                    text[CHOOSE i \in inner : k \in DOMAIN text[i]][k]])

\* lines 22-24: the record the file starts with
Sentinel == [status |-> "no_data", message |-> "Waiting for first update"]

load_schedule(text) ==
    LET r == json_load(text)
    IN  IF r.exc # "none" THEN [error |-> "Failed to load data", message |-> r.exc]
        ELSE r.val

\* a file opened with mode 'a': what it holds is kept
OpenForAppending(text) == text

\* open(DATA_FILE, 'w'): the file is emptied before anything is written
OpenForWriting(text) == <<>>

\* line 38: data['received_at'] = now
Stamped(rec, now) ==
    [k \in DOMAIN rec \cup {"received_at"} |-> IF k = "received_at" THEN now ELSE rec[k]]

\* ------------------------------------------------------------ POST requests
Entry(d, des) ==
    [date |-> d, day |-> d + 1, designation |-> des, timestamp |-> d * MsPerDay + NoonMs]

GoodSummary == [total_upcoming |-> 1, A_count |-> 1, B_count |-> 0, C_count |-> 0]

BasePayload ==
    [fetched_at |-> NowDate,
     next_designation |-> Entry(NowDate, <<"A">>),
     upcoming_schedule |-> <<Entry(NowDate, <<"A">>)>>,
     summary |-> GoodSummary]

required_fields == <<"fetched_at", "next_designation", "upcoming_schedule", "summary">>

\* bodies with every required field: well formed, without a next designation,
\* with a longer window, with an extra member, and with a next designation or
\* a summary that lacks keys
CompleteBodies ==
    {BasePayload,
     [BasePayload EXCEPT !.next_designation = None,
                         !.upcoming_schedule = <<>>,
                         !.summary = [GoodSummary EXCEPT !.total_upcoming = 0, !.A_count = 0]],
     [BasePayload EXCEPT !.upcoming_schedule =
                            <<Entry(NowDate, <<"A">>), Entry(NowDate + 1, <<"B">>)>>,
                         !.summary = [GoodSummary EXCEPT !.total_upcoming = 2, !.B_count = 1]],
     Stamped(BasePayload, 0) @@ [source |-> "extractor"],
     [BasePayload EXCEPT !.next_designation = [designation |-> <<"A">>]],
     [BasePayload EXCEPT !.summary = [total_upcoming |-> 1]]}

Restrict(rec, keys) == [k \in keys |-> rec[k]]

\* bodies that lack one required field, or two
PartialBodies ==
    {Restrict(BasePayload, DOMAIN BasePayload \ {k}) : k \in DOMAIN BasePayload}
    \cup {Restrict(BasePayload, {"fetched_at", "upcoming_schedule"})}

Dict(rec) == [t |-> "dict", d |-> rec]
List(items) == [t |-> "list", l |-> items]
Text(pieces) == [t |-> "text", w |-> pieces]
Invalid == [t |-> "invalid"]

\* what request.json finds in the body: text that is no JSON, or a JSON value.
\* A JSON string is held as its pieces: the field names it contains and the
\* text between them.
Bodies ==
    {Invalid, None, Num(5),
     Text(<<"hello">>), Text(required_fields),
     List(<<"fetched_at", "summary">>), List(required_fields)}
    \cup {Dict(rec) : rec \in CompleteBodies \cup PartialBodies}

\* the Authorization header, as its pieces: absent, the key alone, a wrong key
\* and the right key behind 'Bearer '
Headers == {<<>>, <<API_KEY>>, <<"Bearer ", "wrong">>, <<"Bearer ", API_KEY>>}

PostRequest(header, value) == [header |-> header, value |-> value]

\* the POST requests: every body under the right key, two bodies under the
\* other headers
PostRequests ==
    {PostRequest(<<"Bearer ", API_KEY>>, value) : value \in Bodies}
    \cup {PostRequest(header, value) : header \in Headers, value \in {Invalid, Dict(BasePayload)}}

\* line 54
Authorized(header) ==
    Len(header) >= 1 /\ header[1] = "Bearer " /\ Tail(header) = <<API_KEY>>

\* 'field in data' where it is defined: a key of a dict, an item of a list, a
\* part of a string
Contains(value, field) ==
    CASE value.t = "dict" -> field \in DOMAIN value.d
      [] value.t = "list" -> \E i \in DOMAIN value.l : value.l[i] = field
      [] value.t = "text" -> \E i \in DOMAIN value.w : value.w[i] = field

\* line 71
missing_fields(value) == SelectSeq(required_fields, LAMBDA f : ~Contains(value, f))

NoRequest == [route |-> "none"]

Answer(route, request, status, loaded, body) ==
    [route |-> route, request |-> request, status |-> status,
     loaded |-> loaded, body |-> body]

PostRoute == "POST /dominion-schedule"

\* lines 52-81: the status and body of a request that is answered before the
\* file is opened; status 0 when the request goes on to write the file.  A
\* TypeError of line 71 is raised outside the try and answered by Flask with 500.
receive_schedule_check(header, value) ==
    IF ~Authorized(header) THEN [status |-> 401, body |-> [error |-> "Unauthorized"]]
    ELSE IF value.t = "invalid" THEN [status |-> 400, body |-> [error |-> "Invalid JSON"]]
    ELSE IF value.t \in {"null", "num"}
         THEN [status |-> 500, body |-> [error |-> "Internal Server Error"]]
    ELSE IF missing_fields(value) # <<>>
         THEN [status |-> 400,
               body |-> [error |-> "Missing required fields",
                         missing |-> missing_fields(value)]]
    ELSE IF value.t # "dict"
         THEN [status |-> 500, body |-> [error |-> "Failed to save data"]]
    ELSE [status |-> 0, body |-> [error |-> "none"]]

HasKeys(rec, keys) == \A k \in keys : k \in DOMAIN rec

\* lines 83-105: the answer once save_schedule has returned
receive_schedule_answer(rec) ==
    LET next_des == rec.next_designation
        summary == rec.summary
    IN  IF /\ (IsNone(next_des) \/ HasKeys(next_des, {"designation", "date"}))
           /\ HasKeys(summary, {"total_upcoming", "A_count", "B_count", "C_count"})
        THEN [status |-> 200,
              body |-> [status |-> "success",
                        next_designation |-> IF IsNone(next_des) THEN None
                                             ELSE Str(next_des.designation),
                        next_date |-> IF IsNone(next_des) THEN None ELSE Num(next_des.date)]]
        ELSE [status |-> 500, body |-> [error |-> "Failed to save data"]]

\* ------------------------------------------------------------- GET handlers
\* Each takes the record load_schedule returned and gives the status and the
\* body of the answer.  A KeyError in a handler is answered by Flask with 500.
InternalError == [status |-> 500, body |-> [error |-> "Internal Server Error"]]

IsErrorRecord(rec) == "error" \in DOMAIN rec
IsNoData(rec) == "status" \in DOMAIN rec /\ rec.status = "no_data"

\* data.get(key), None when the key is absent
GetKey(rec, key) == IF key \in DOMAIN rec THEN rec[key] ELSE None

\* lines 124-132
get_full_schedule(rec) ==
    IF IsErrorRecord(rec) THEN [status |-> 500, body |-> rec]
    ELSE IF IsNoData(rec) THEN [status |-> 404, body |-> rec]
    ELSE [status |-> 200, body |-> rec]

\* lines 151-171, get_next_designation of the receiver
api_get_next_designation(rec) ==
    IF IsErrorRecord(rec) THEN [status |-> 500, body |-> rec]
    ELSE IF IsNoData(rec) THEN [status |-> 404, body |-> [error |-> "No data available"]]
    ELSE LET next_des == GetKey(rec, "next_designation")
         IN  IF IsNone(next_des)
             THEN [status |-> 404, body |-> [error |-> "No upcoming designation found"]]
             ELSE IF ~HasKeys(next_des, {"designation", "date", "day", "timestamp"})
                     \/ "fetched_at" \notin DOMAIN rec
             THEN InternalError
             ELSE [status |-> 200,
                   body |-> [designation |-> next_des.designation,
                             date |-> next_des.date,
                             day |-> next_des.day,
                             timestamp |-> next_des.timestamp,
                             fetched_at |-> rec.fetched_at,
                             received_at |-> GetKey(rec, "received_at")]]

\* lines 185-195
get_designation_only(rec) ==
    IF IsErrorRecord(rec) \/ IsNoData(rec) THEN [status |-> 404, body |-> [text |-> "ERROR"]]
    ELSE LET next_des == GetKey(rec, "next_designation")
         IN  IF IsNone(next_des) THEN [status |-> 404, body |-> [text |-> "NONE"]]
             ELSE IF "designation" \notin DOMAIN next_des THEN InternalError
             ELSE [status |-> 200, body |-> [letter |-> next_des.designation]]

\* the first entry of the list with the date, None when there is none
RECURSIVE EntryOn(_, _)
EntryOn(entries, date) ==
    IF entries = <<>> THEN None
    ELSE IF Head(entries).date = date THEN Head(entries)
    ELSE EntryOn(Tail(entries), date)

\* lines 212-234
get_today_designation(rec, today) ==
    IF IsErrorRecord(rec) \/ IsNoData(rec)
    THEN [status |-> 404, body |-> [error |-> "No data available"]]
    ELSE LET upcoming == IF "upcoming_schedule" \in DOMAIN rec
                         THEN rec.upcoming_schedule ELSE <<>>
             entry == EntryOn(upcoming, today)
         IN  IF IsNone(entry)
             THEN [status |-> 404, body |-> [error |-> "No designation for today"]]
             ELSE [status |-> 200,
                   body |-> [date |-> entry.date, designation |-> entry.designation,
                             day |-> entry.day, is_today |-> TRUE]]

\* upcoming[:limit]
FirstN(entries, n) == [i \in 1..(IF n < Len(entries) THEN n ELSE Len(entries)) |-> entries[i]]

\* lines 257-278; limit 0 stands for no limit given
get_upcoming_days(rec, limit, designation_filter) ==
    IF IsErrorRecord(rec) \/ IsNoData(rec)
    THEN [status |-> 404, body |-> [error |-> "No data available"]]
    ELSE LET all == IF "upcoming_schedule" \in DOMAIN rec
                    THEN rec.upcoming_schedule ELSE <<>>
             filtered == IF designation_filter \in Designations
                         THEN SelectSeq(all, LAMBDA e : e.designation = designation_filter)
                         ELSE all
             limited == IF limit > 0 THEN FirstN(filtered, limit) ELSE filtered
         IN  [status |-> 200,
              body |-> [upcoming |-> limited, count |-> Len(limited),
                        total_available |-> Len(all)]]

\* summary.get(key, 0)
GetOrZero(rec, key) == IF key \in DOMAIN rec THEN rec[key] ELSE 0

\* lines 298-315
get_summary(rec) ==
    IF IsErrorRecord(rec) \/ IsNoData(rec)
    THEN [status |-> 404, body |-> [error |-> "No data available"]]
    ELSE LET summary == IF "summary" \in DOMAIN rec THEN rec.summary ELSE [none |-> 0]
             next_des == GetKey(rec, "next_designation")
         IN  [status |-> 200,
              body |-> [total_upcoming |-> GetOrZero(summary, "total_upcoming"),
                        A_count |-> GetOrZero(summary, "A_count"),
                        B_count |-> GetOrZero(summary, "B_count"),
                        C_count |-> GetOrZero(summary, "C_count"),
                        next_designation |->
                            IF IsNone(next_des) THEN None
                            ELSE GetKey(next_des, "designation"),
                        fetched_at |-> GetKey(rec, "fetched_at"),
                        received_at |-> GetKey(rec, "received_at")]]

\* lines 321-328
health_check(rec) ==
    [status |-> 200,
     body |-> [status |-> "healthy",
               has_data |-> "next_designation" \in DOMAIN rec,
               last_update |-> IF "received_at" \in DOMAIN rec
                               THEN Num(rec.received_at) ELSE Str(<<"never">>)]]

\* ---------------------------------------------------------- receiver actions
\* lines 22-24: the file holds the sentinel, or what an earlier process of the
\* receiver left in it
InitialRecords ==
    {Sentinel, Stamped(BasePayload, 0), Stamped(BasePayload, 0) @@ [source |-> "extractor"]}

\* the extractor about to run, the receiver freshly deployed
ExtractorInit ==
    /\ pc = "fetch_current"
    /\ days_ahead \in 0..MaxDaysAhead
    /\ api_endpoint \in BOOLEAN
    /\ schedule = <<>>
    /\ last_schedule_date = NowDate
    /\ fetches = <<>>
    /\ error = "none"
    /\ payload = None
    /\ today_read = NowDate
    /\ publish_calls = 0
    /\ posts = <<>>
    /\ file = json_dump(Sentinel)
    /\ clock = 0
    /\ wpc = "idle"
    /\ post_body = None
    /\ data = None
    /\ stored_before = Sentinel
    /\ response = NoRequest

\* the receiver started, the extractor not running
ServerInit ==
    /\ pc = "fetch_current"
    /\ days_ahead = 0
    /\ api_endpoint = FALSE
    /\ schedule = <<>>
    /\ last_schedule_date = NowDate
    /\ fetches = <<>>
    /\ error = "none"
    /\ payload = None
    /\ today_read = NowDate
    /\ publish_calls = 0
    /\ posts = <<>>
    /\ \E rec \in InitialRecords :
        /\ file = json_dump(rec)
        /\ stored_before = rec
    /\ clock = 0
    /\ wpc = "idle"
    /\ post_body = None
    /\ data = None
    /\ response = NoRequest

\* no POST handler is between its stamp and its answer
NoSaveInFlight == wpc \in {"idle", "saved", "failed"}

\* a POST that is answered before the file is opened (lines 52-81, 100-105)
PostRefused ==
    /\ NoSaveInFlight
    /\ \E request \in PostRequests :
        LET check == receive_schedule_check(request.header, request.value)
        IN  /\ check.status # 0
            /\ response' = Answer(PostRoute, request, check.status, None, check.body)
    /\ UNCHANGED <<file, clock, wpc, post_body, data, stored_before, evars>>

\* a POST that passes the checks: save_schedule stamps the body (lines 81, 38)
PostStamps ==
    /\ NoSaveInFlight
    /\ clock < MaxSaves
    /\ \E request \in PostRequests :
        /\ receive_schedule_check(request.header, request.value).status = 0
        /\ post_body' = request.value.d
        /\ data' = Stamped(request.value.d, clock + 1)
    /\ clock' = clock + 1
    /\ stored_before' = load_schedule(file)
    /\ wpc' = "open"
    /\ UNCHANGED <<file, response, evars>>

SavingRequest == PostRequest(<<"Bearer ", API_KEY>>, Dict(post_body))

SaveFailed == [error |-> "Failed to save data"]

\* line 39: the file is opened for writing
SaveOpens ==
    /\ wpc = "open"
    /\ file' = OpenForWriting(file)
    /\ wpc' = "write"
    /\ UNCHANGED <<clock, post_body, data, stored_before, response, evars>>

\* line 39 raises: the file cannot be opened (lines 100-105)
SaveOpenFails ==
    /\ wpc = "open"
    /\ response' = Answer(PostRoute, SavingRequest, 500, None, SaveFailed)
    /\ wpc' = "failed"
    /\ UNCHANGED <<file, clock, post_body, data, stored_before, evars>>

\* line 40: json.dump's text reaches the file, a block at a time
SaveWrites ==
    /\ wpc = "write"
    /\ Len(file) < Len(json_dump(data))
    /\ LET text == json_dump(data)
           n == IF Len(file) + BlockTokens < Len(text)
                THEN Len(file) + BlockTokens ELSE Len(text)
       IN  file' = [i \in 1..n |-> text[i]]
    /\ UNCHANGED <<clock, wpc, post_body, data, stored_before, response, evars>>

\* line 40 raises before all of the text is written (lines 100-105)
SaveWriteFails ==
    /\ wpc = "write"
    /\ Len(file) < Len(json_dump(data))
    /\ response' = Answer(PostRoute, SavingRequest, 500, None, SaveFailed)
    /\ wpc' = "failed"
    /\ UNCHANGED <<file, clock, post_body, data, stored_before, evars>>

\* the file is closed and the handler answers (lines 83-105)
PostAnswers ==
    /\ wpc = "write"
    /\ Len(file) = Len(json_dump(data))
    /\ LET answer == receive_schedule_answer(data)
       IN  response' = Answer(PostRoute, SavingRequest, answer.status, None, answer.body)
    /\ wpc' = "saved"
    /\ UNCHANGED <<file, clock, post_body, data, stored_before, evars>>

NoArgs == [none |-> 0]

\* a GET handler runs: it loads the file as it is and answers
ServeGet(route, args, answer) ==
    /\ response' = Answer(route, args, answer.status, load_schedule(file), answer.body)
    /\ UNCHANGED <<file, clock, wpc, post_body, data, stored_before, evars>>

GetFullSchedule == ServeGet("GET /api/schedule", NoArgs, get_full_schedule(load_schedule(file)))

GetNext == ServeGet("GET /api/next", NoArgs, api_get_next_designation(load_schedule(file)))

GetDesignation ==
    ServeGet("GET /api/designation", NoArgs, get_designation_only(load_schedule(file)))

GetToday ==
    \E today \in ClockDates :
        ServeGet("GET /api/today", [today |-> today],
            get_today_designation(load_schedule(file), today))

UpcomingFilters == {<<>>, <<"A">>, <<"X">>}

GetUpcoming ==
    \E limit \in 0..MaxLimit, designation_filter \in UpcomingFilters :
        ServeGet("GET /api/upcoming", [limit |-> limit, designation |-> designation_filter],
            get_upcoming_days(load_schedule(file), limit, designation_filter))

GetSummary == ServeGet("GET /api/summary", NoArgs, get_summary(load_schedule(file)))

GetHealth == ServeGet("GET /health", NoArgs, health_check(load_schedule(file)))

ServerNext ==
    \/ PostRefused
    \/ PostStamps
    \/ SaveOpens
    \/ SaveOpenFails
    \/ SaveWrites
    \/ SaveWriteFails
    \/ PostAnswers
    \/ GetFullSchedule
    \/ GetNext
    \/ GetDesignation
    \/ GetToday
    \/ GetUpcoming
    \/ GetSummary
    \/ GetHealth

\* ---------------------------------------------------------- specifications
\* the extractor's runs, beside a receiver that gets no request
ExtractorSpec == ExtractorInit /\ [][ExtractorNext]_vars

\* the receiver's requests, beside an extractor that does not run
ServerSpec == ServerInit /\ [][ServerNext]_vars


\* ---------------------------------------------------------- extractor claims
HasPayload == pc \in {"publish", "returned"}

Occurrences(entries, e) == Cardinality({i \in DOMAIN entries : entries[i] = e})

Range(entries) == {entries[i] : i \in DOMAIN entries}

DateInWindow(e) == NowDate <= e.date /\ e.date <= NowDate + days_ahead

\* C1: the payload's upcoming_schedule holds exactly the entries of the combined
\* schedule whose date lies in [now.date, now.date + DAYS_AHEAD]: each such
\* entry as often as the schedule holds it, and no other entry.
C1_UpcomingIsExactlyTheWindow ==
    HasPayload =>
        \A e \in Range(schedule) \cup Range(payload.upcoming_schedule) :
            Occurrences(payload.upcoming_schedule, e)
                = IF DateInWindow(e) THEN Occurrences(schedule, e) ELSE 0

\* a run over both months whose schedule has an entry before the window, one
\* inside it and one behind it
C1_Witness ==
    /\ HasPayload
    /\ Len(fetches) = 2
    /\ \E e \in Range(schedule) : e.date < NowDate
    /\ \E e \in Range(schedule) : e.date > NowDate + days_ahead
    /\ payload.upcoming_schedule # <<>>

\* C2: next_designation is present exactly when the combined schedule has an
\* entry on or after now.date, and then it carries the least such date.
C2_NextDesignationIsEarliest ==
    HasPayload =>
        LET next == payload.next_designation
            later == {e \in Range(schedule) : e.date >= NowDate}
        IN  IF later = {} THEN "date" \notin DOMAIN next
            ELSE /\ "date" \in DOMAIN next
                 /\ next.date >= NowDate
                 /\ \A e \in later : next.date <= e.date

\* C3: upcoming_schedule is strictly ascending by date.
C3_UpcomingStrictlyAscending ==
    HasPayload =>
        \A i, j \in DOMAIN payload.upcoming_schedule :
            i < j => payload.upcoming_schedule[i].date < payload.upcoming_schedule[j].date

LetterCount(entries, letter) ==
    Cardinality({i \in DOMAIN entries : entries[i].designation = letter})

\* C4: the three per-letter counts add up to total_upcoming, which is the
\* length of upcoming_schedule, and each count is the number of entries of
\* upcoming_schedule with that letter.
C4_SummaryCountsAgree ==
    HasPayload =>
        LET up == payload.upcoming_schedule
            sum == payload.summary
        IN  /\ sum.A_count + sum.B_count + sum.C_count = sum.total_upcoming
            /\ sum.total_upcoming = Len(up)
            /\ sum.A_count = LetterCount(up, <<"A">>)
            /\ sum.B_count = LetterCount(up, <<"B">>)
            /\ sum.C_count = LetterCount(up, <<"C">>)

\* a payload that counts every letter
C4_Witness ==
    /\ HasPayload
    /\ payload.summary.A_count >= 1
    /\ payload.summary.B_count >= 1
    /\ payload.summary.C_count >= 1

\* C5: normalization never raises: a run is aborted by a failed fetch only.
C5_NormalizationNeverRaises ==
    pc = "raised" => error = "RequestException" /\ ~fetches[Len(fetches)].ok

AllFetchesOk == \A i \in DOMAIN fetches : fetches[i].ok

Fetched(month) == \E i \in DOMAIN fetches : fetches[i].month = month /\ fetches[i].ok

\* C7: a failed fetch aborts the run with the fetch error and without a call
\* of publish_to_api; publish_to_api is called at most once, and only after
\* the current month and, when the window needs it, the next month were fetched.
C7_NoPublishAfterFailedFetch ==
    /\ publish_calls <= 1
    /\ Len(posts) <= publish_calls
    /\ ~AllFetchesOk =>
        pc = "raised" /\ error = "RequestException" /\ publish_calls = 0 /\ posts = <<>>
    /\ (publish_calls > 0 \/ pc = "publish") =>
        /\ AllFetchesOk
        /\ Fetched("current")
        /\ (NowDate + days_ahead > last_schedule_date => Fetched("next"))

\* the fetch of the next month failed after the current month was fetched
C7_Witness ==
    /\ pc = "raised"
    /\ Len(fetches) = 2
    /\ fetches[1].ok
    /\ ~fetches[2].ok
    /\ publish_calls = 0

\* ----------------------------------------------------------- receiver claims
DerivationRoutes ==
    {"GET /api/designation", "GET /api/next", "GET /api/today", "GET /api/upcoming",
     "GET /api/summary"}

ReadRoutes == DerivationRoutes \cup {"GET /api/schedule", "GET /health"}

\* C6: whenever a GET handler loads the file, also while a save is writing it
\* and after a save failed partway, load_schedule returns the complete record
\* stored before that save or the complete record that save writes.
C6_LoadSeesPreviousOrNewRecord ==
    [][(UNCHANGED <<file, wpc, clock>> /\ response'.route \in ReadRoutes)
            => (response'.loaded = stored_before \/ response'.loaded = data)]_vars

\* the required fields a parsed body lacks
AbsentFields(value) ==
    IF value.t = "dict"
    THEN SelectSeq(required_fields, LAMBDA f : f \notin DOMAIN value.d)
    ELSE required_fields

\* C8: an authorized POST whose body is no JSON object, or lacks a required
\* field, is answered with 400, and with 'missing' naming the absent fields
\* when the body is an object.
C8_BadBodyAnsweredWith400 ==
    (/\ response.route = PostRoute
     /\ Authorized(response.request.header)
     /\ AbsentFields(response.request.value) # <<>>)
        => /\ response.status = 400
           /\ response.request.value.t = "dict"
                => /\ "missing" \in DOMAIN response.body
                   /\ response.body.missing = AbsentFields(response.request.value)

\* C9: a derivation endpoint answers 404 whenever the record it loaded is the
\* sentinel or the error record of a failed read; over the sentinel the full
\* schedule is answered with 404 too and /health reports has_data false.
C9_NoDataAnsweredWith404 ==
    /\ (/\ response.route \in DerivationRoutes
        /\ (IsNoData(response.loaded) \/ IsErrorRecord(response.loaded)))
            => response.status = 404
    /\ (response.route = "GET /api/schedule" /\ IsNoData(response.loaded))
            => response.status = 404
    /\ (response.route = "GET /health" /\ IsNoData(response.loaded))
            => ~response.body.has_data

\* C10: once save_schedule has returned, load_schedule returns the saved body
\* with a received_at member added: the members of the body with their values,
\* the stamp of this save, and nothing else.
C10_SaveThenLoadRoundTrip ==
    wpc = "saved" =>
        LET rec == load_schedule(file)
        IN  /\ DOMAIN rec = DOMAIN post_body \cup {"received_at"}
            /\ rec.received_at = clock
            /\ \A k \in DOMAIN post_body \ {"received_at"} : rec[k] = post_body[k]

\* a save over a record that had a member the saved body lacks
C10_Witness ==
    /\ wpc = "saved"
    /\ "source" \in DOMAIN stored_before
    /\ "source" \notin DOMAIN post_body
    /\ "source" \notin DOMAIN load_schedule(file)

\* C11: a POST overwrites the stored record exactly when it is answered with
\* 200: after an answer of 200 the file holds the record of that request, and
\* after an answer of 401, 400 or 500 load_schedule returns what it returned
\* before the request, also when the body passed the checks and its
\* next_designation or summary lacks a key the handler reads after saving.
C11_StoredRecordChangesOnlyWith200 ==
    [][/\ (response'.route = PostRoute /\ response' # response /\ wpc' = wpc)
            => (response'.status # 200 /\ file' = file)
       /\ (wpc \in {"open", "write"} /\ wpc' \in {"saved", "failed"})
            => /\ response'.route = PostRoute
               /\ IF response'.status = 200
                  THEN load_schedule(file') = data
                  ELSE load_schedule(file') = stored_before]_vars

====
